---- MODULE Spec2Model ----
(***************************************************************************)
(* State-machine model of the PPE detection test tooling:                  *)
(*   - validate_model.py : validate_prediction_format, analyze_predictions *)
(*   - test_model.py     : the elif-chain categoriser of                   *)
(*                         PPEModelTester.validate_predictions             *)
(*   - test_video.py     : test_video_file / test_frame (local server      *)
(*                         first, cloud API as fallback)                   *)
(*   - quick_test.py     : test_webcam (same fallback, inline)             *)
(*   - inference_service.py : main, process_frame and the two detectors    *)
(*   - test_model.py     : PPEModelTester.run_full_test as main drives it  *)
(*   - diagnose_frame.py : analyze_frame                                   *)
(*                                                                         *)
(* Conventions.  A Python string is a sequence of one-character strings.   *)
(* A JSON value is a record [t, n, s]: t is its Python type, n its number  *)
(* in hundredths (0.4 is 40, 1 is 100), s its characters.  A prediction    *)
(* (a dict) is a function over Fields whose absent keys hold Missing.      *)
(***************************************************************************)
EXTENDS Integers, Sequences, FiniteSets, TLC

VARIABLES
    \* ---- analyze_predictions (validate_model.py) ----
    apc,                  \* "ready" before the call, "done" after it
    predictions,          \* data["predictions"]
    confidence_threshold, \* the confidence_threshold argument, in hundredths
    report,               \* everything analyze_predictions computed and printed
    \* ---- test_frame / test_webcam (test_video.py, quick_test.py) ----
    script,               \* which script runs: "test_video" or "quick_test"
    fpc,                  \* "idle", "primary", "secondary", "done"
    response,             \* the local variable `response`
    calls,                \* the requests.post calls issued by this inspection
    printed,              \* the messages this inspection printed
    result,               \* what the inspection returned / saved
    frame_no,             \* test_video_file: frames handed to test_frame so far
    tested_frames,        \* test_video_file: tested_frames
    total_detections,     \* test_video_file: total_detections
    persons_found,        \* test_video_file: persons_found
    \* ---- validate_prediction_format on one record (validate_model.py) ----
    vpc,                  \* "ready" before the call, "done" after it
    pred_in,              \* the prediction argument
    validation,           \* what the call raised, its errors and its warnings
    \* ---- the inference service loop (inference_service.py) ----
    svc,                  \* "off", "running" (in the while loop), "stopped"
    stdin,                \* the lines not yet read
    stdout,               \* the JSON results printed so far
    svc_log,              \* history: per line read, what the detectors did
    eof_reads,            \* input() calls made after the end of stdin
    \* ---- PPEModelTester driven by main (test_model.py) ----
    tpc,                  \* "off", "running", "finished", "crashed"
    api_key,              \* ROBOFLOW_API_KEY
    runs,                 \* run_full_test calls made so far
    posts,                \* the requests.post calls issued so far
    run_log,              \* history: per run_full_test call, what happened
    test_results,         \* self.test_results
    \* ---- analyze_frame (diagnose_frame.py) ----
    dpc,                  \* "off", "ready" before the call, "done" after it
    camera,               \* which devices open, and whether a frame is read
    scene,                \* brightness, contrast, sharpness, edge density
    diagnosis,            \* what analyze_frame printed and saved
    \* ---- test_video_file (test_video.py), the sampling of the frames ----
    video_pc,             \* "off", "ready", "loop" over the frames, "done"
    video,                \* whether the file opens, CAP_PROP_FRAME_COUNT, num_frames
    frame_indices,        \* frame_indices
    idx                   \* the entries of frame_indices the loop has handled

analyzeVars == <<apc, predictions, confidence_threshold, report>>
failoverVars == <<script, fpc, response, calls, printed, result,
                  frame_no, tested_frames, total_detections, persons_found>>
validateVars == <<vpc, pred_in, validation>>
\* the variables of the tools other than analyze_predictions and the fallback
serviceVars == <<svc, stdin, stdout, svc_log, eof_reads>>
testerVars == <<tpc, api_key, runs, posts, run_log, test_results>>
diagnoseVars == <<dpc, camera, scene, diagnosis>>
videoVars == <<video_pc, video, frame_indices, idx>>
toolVars == <<validateVars, serviceVars, testerVars, diagnoseVars, videoVars>>
vars == <<apc, predictions, confidence_threshold, report,
          script, fpc, response, calls, printed, result,
          frame_no, tested_frames, total_detections, persons_found,
          toolVars>>

(***************************************************************************)
(* Bounds of the model.                                                    *)
(***************************************************************************)
MaxPreds == 3
MaxBodyPreds == 2
MaxFrames == 2
MaxLines == 2
MaxEofReads == 2
MaxTestPreds == 2

(***************************************************************************)
(* Python strings: str.lower() and the `in` substring test.                *)
(***************************************************************************)
UpperChars == <<"A","B","C","D","E","F","G","H","I","J","K","L","M",
                "N","O","P","Q","R","S","T","U","V","W","X","Y","Z">>
LowerChars == <<"a","b","c","d","e","f","g","h","i","j","k","l","m",
                "n","o","p","q","r","s","t","u","v","w","x","y","z">>

LowerChar(c) ==
    IF \E i \in DOMAIN UpperChars : UpperChars[i] = c
    THEN LowerChars[CHOOSE i \in DOMAIN UpperChars : UpperChars[i] = c]
    ELSE c

\* s.lower()
Lower(s) == [i \in 1..Len(s) |-> LowerChar(s[i])]

\* sub in s
Contains(sub, s) ==
    \E i \in 0..(Len(s) - Len(sub)) : SubSeq(s, i + 1, i + Len(sub)) = sub

\* any(x in s for x in keywords)
ContainsAny(keywords, s) == \E k \in keywords : Contains(k, s)

s_person        == <<"p","e","r","s","o","n">>
s_hardhat       == <<"h","a","r","d","h","a","t">>
s_helmet        == <<"h","e","l","m","e","t">>
s_head          == <<"h","e","a","d">>
s_glove         == <<"g","l","o","v","e">>
s_hand          == <<"h","a","n","d">>
s_vest          == <<"v","e","s","t">>
s_jacket        == <<"j","a","c","k","e","t">>
s_safety        == <<"s","a","f","e","t","y">>
s_unknown       == <<"u","n","k","n","o","w","n">>
s_Person        == <<"P","e","r","s","o","n">>
s_no_person     == <<"n","o","_","p","e","r","s","o","n">>
s_gloves        == <<"g","l","o","v","e","s">>
s_safety_glove  == <<"s","a","f","e","t","y","_","g","l","o","v","e">>
s_boots         == <<"b","o","o","t","s">>
s_high          == <<"h","i","g","h">>
s_Unknown       == <<"U","n","k","n","o","w","n">>
s_HardHat       == <<"H","a","r","d","H","a","t">>
s_Gloves        == <<"G","l","o","v","e","s">>
s_Safety_Vest   == <<"S","a","f","e","t","y","_","V","e","s","t">>
s_key           == <<"k","e","y">>

\* the keyword lists of the compliance checks
HeadKeywords == {s_hardhat, s_helmet, s_head}
HandKeywords == {s_glove, s_hand}
BodyKeywords == {s_vest, s_jacket, s_safety}

(***************************************************************************)
(* JSON values and prediction dicts.                                       *)
(***************************************************************************)
IntV(k)   == [t |-> "int",   n |-> k * 100, s |-> <<>>]
FloatV(h) == [t |-> "float", n |-> h,       s |-> <<>>]
StrV(str) == [t |-> "str",   n |-> 0,       s |-> str]
NoneV     == [t |-> "none",  n |-> 0,       s |-> <<>>]
Missing   == [t |-> "missing", n |-> 0,     s |-> <<>>]
ListV     == [t |-> "list",  n |-> 0,       s |-> <<>>]

Fields == {"x", "y", "width", "height", "confidence", "class",
           "class_id", "detection_id"}

\* field in prediction
Has(prediction, field) == prediction[field].t # "missing"

\* prediction.get(field, default)
Get(prediction, field, default) ==
    IF Has(prediction, field) THEN prediction[field] ELSE default

\* isinstance(v, (int, float))
IsNumeric(v) == v.t \in {"int", "float"}

\* isinstance(v, str)
IsStr(v) == v.t = "str"

\* isinstance(v, (str, int))
IsStrOrIntOrFloat(v) == v.t \in {"str", "int", "float"}
IsStrOrInt(v) == v.t \in {"str", "int"}

\* a well-formed detection of class cls with confidence conf
Pred(cls, conf) ==
    [f \in Fields |->
        CASE f = "x" -> IntV(320)
          [] f = "y" -> IntV(240)
          [] f = "width" -> IntV(150)
          [] f = "height" -> IntV(200)
          [] f = "confidence" -> conf
          [] f = "class" -> cls
          [] OTHER -> Missing]

\* the same dict without key k
Without(prediction, k) == [prediction EXCEPT ![k] = Missing]

\* a tool that is not running
ValidateIdle ==
    /\ vpc = "off"
    /\ pred_in = Pred(NoneV, NoneV)
    /\ validation = [raised |-> "none", errors |-> <<>>, warnings |-> <<>>]

ServiceIdle ==
    /\ svc = "off"
    /\ stdin = <<>>
    /\ stdout = <<>>
    /\ svc_log = <<>>
    /\ eof_reads = 0

TesterIdle ==
    /\ tpc = "off"
    /\ api_key = <<>>
    /\ runs = 0
    /\ posts = <<>>
    /\ run_log = <<>>
    /\ test_results = [total_frames |-> 0, successful_predictions |-> 0,
                       failed_predictions |-> 0, frames |-> <<>>]

\* analyze_frame before it has saved or printed anything
NoDiagnosis ==
    [saved |-> FALSE, brightness |-> 0, contrast |-> 0, sharpness |-> 0,
     edge_density |-> 0,
     diagnostics |-> [lighting |-> "none", contrast |-> "none",
                      sharpness |-> "none", has_objects |-> "none"],
     messages |-> {}, recommendations |-> <<>>]

DiagnoseIdle ==
    /\ dpc = "off"
    /\ camera = [video1 |-> FALSE, video0 |-> FALSE, ret |-> FALSE]
    /\ scene = [brightness |-> 0, contrast |-> 0, sharpness |-> 0,
                edge_density |-> 0]
    /\ diagnosis = NoDiagnosis

VideoIdle ==
    /\ video_pc = "off"
    /\ video = [opened |-> FALSE, total_frames |-> 0, num_frames |-> 1]
    /\ frame_indices = <<>>
    /\ idx = 0

ToolsIdle ==
    ValidateIdle /\ ServiceIdle /\ TesterIdle /\ DiagnoseIdle /\ VideoIdle

(***************************************************************************)
(* validate_model.py : validate_prediction_format                          *)
(***************************************************************************)
required_fields == <<"x", "y", "width", "height", "confidence", "class">>
optional_fields == <<"class_id", "detection_id">>
numeric_fields  == {"x", "y", "width", "height", "confidence"}

Err(kind, field) == [kind |-> kind, field |-> field]

\* the body of the loop over required_fields, for one field
FieldErrors(prediction, field) ==
    IF ~Has(prediction, field)
    THEN <<Err("missing", field)>>
    ELSE IF field \in numeric_fields
    THEN (IF ~IsNumeric(prediction[field])
          THEN <<Err("not_numeric", field)>> ELSE <<>>)
    ELSE IF field = "class"
    THEN (IF ~IsStr(prediction[field])
          THEN <<Err("not_string", field)>> ELSE <<>>)
    ELSE <<>>

RECURSIVE RequiredErrors(_, _)
RequiredErrors(prediction, i) ==
    IF i > Len(required_fields) THEN <<>>
    ELSE FieldErrors(prediction, required_fields[i])
            \o RequiredErrors(prediction, i + 1)

\* the body of the loop over optional_fields, for one field
FieldWarnings(prediction, field) ==
    IF Has(prediction, field) /\ ~IsStrOrInt(prediction[field])
    THEN <<Err("should_be_str_or_int", field)>> ELSE <<>>

RECURSIVE OptionalWarnings(_, _)
OptionalWarnings(prediction, i) ==
    IF i > Len(optional_fields) THEN <<>>
    ELSE FieldWarnings(prediction, optional_fields[i])
            \o OptionalWarnings(prediction, i + 1)

\* 0.0 <= conf <= 1.0, for a numeric conf
InRangeOpen(conf) == 0 < conf.n /\ conf.n < 100
InRange(conf) == 0 <= conf.n /\ conf.n <= 100

\* Returns [raised, errors, warnings].  The range test compares conf with a
\* float whatever its type: Python raises TypeError for a str, None or list.
validate_prediction_format(prediction) ==
    LET errors   == RequiredErrors(prediction, 1)
        warnings == OptionalWarnings(prediction, 1)
        conf     == prediction["confidence"]
    IN  IF ~Has(prediction, "confidence")
        THEN [raised |-> "none", errors |-> errors, warnings |-> warnings]
        ELSE IF ~IsNumeric(conf)
        THEN [raised |-> "TypeError", errors |-> errors, warnings |-> warnings]
        ELSE IF ~InRange(conf)
        THEN [raised |-> "none",
              errors |-> errors \o <<Err("out_of_range", "confidence")>>,
              warnings |-> warnings]
        ELSE [raised |-> "none", errors |-> errors, warnings |-> warnings]

(***************************************************************************)
(* validate_model.py : analyze_predictions                                 *)
(***************************************************************************)
confidence_threshold_default == 40

\* confidence >= confidence_threshold
PassesThresholdStrict(conf, threshold) == conf > threshold
PassesThreshold(conf, threshold) == conf >= threshold

\* pred.get("class", "unknown") and pred.get("confidence", 0)
ClassOf(pred) == Get(pred, "class", StrV(s_unknown))
ConfOf(pred)  == Get(pred, "confidence", IntV(0))

\* The validation loop (for i, pred in enumerate(predictions, 1)), from
\* record i on.  acc holds the counters and the per-record reports printed
\* so far; an exception leaves the loop and the function.
RECURSIVE ValidationLoop(_, _, _, _)
ValidationLoop(preds, threshold, i, acc) ==
    IF i > Len(preds) THEN acc
    ELSE
      LET pred       == preds[i]
          v          == validate_prediction_format(pred)
          class_name == ClassOf(pred)
          confidence == ConfOf(pred)
      IN  IF v.raised # "none"
          THEN [acc EXCEPT !.raised = v.raised]
          ELSE IF ~IsStr(class_name)          \* class_name.lower()
          THEN [acc EXCEPT !.raised = "AttributeError"]
          ELSE IF ~IsNumeric(confidence)      \* confidence >= threshold
          THEN [acc EXCEPT !.raised = "TypeError"]
          ELSE ValidationLoop(preds, threshold, i + 1,
                 [acc EXCEPT
                    !.persons_found = @ +
                        (IF Lower(class_name.s) = s_person THEN 1 ELSE 0),
                    !.passed_threshold = @ +
                        (IF PassesThreshold(confidence.n, threshold)
                         THEN 1 ELSE 0),
                    !.total_errors = @ + Len(v.errors),
                    !.total_warnings = @ + Len(v.warnings),
                    !.reports = Append(@, [errors |-> v.errors,
                                           warnings |-> v.warnings])])

LoopStart ==
    [raised |-> "none", persons_found |-> 0, passed_threshold |-> 0,
     total_errors |-> 0, total_warnings |-> 0, reports |-> <<>>]

\* The compliance loop: classes[cls] collects the confidences of the
\* predictions of lower-cased class cls that pass the threshold.
GatedPreds(preds, threshold) ==
    SelectSeq(preds, LAMBDA p : PassesThreshold(ConfOf(p).n, threshold))

ConfsOf(seq) == [i \in 1..Len(seq) |-> ConfOf(seq[i]).n]

Classes(preds, threshold) ==
    LET gated == GatedPreds(preds, threshold)
        keys  == {Lower(ClassOf(gated[i]).s) : i \in 1..Len(gated)}
    IN  [k \in keys |->
            ConfsOf(SelectSeq(gated, LAMBDA p : Lower(ClassOf(p).s) = k))]

\* any(k for k in classes.keys() if <test on k>): k itself must be truthy
HasPerson(classes) ==
    \E k \in DOMAIN classes : Contains(s_person, k) /\ Len(k) > 0
HasHardhat(classes) ==
    \E k \in DOMAIN classes : ContainsAny(HeadKeywords, k) /\ Len(k) > 0
HasGloves(classes) ==
    \E k \in DOMAIN classes : ContainsAny(HandKeywords, k) /\ Len(k) > 0
HasVest(classes) ==
    \E k \in DOMAIN classes : ContainsAny(BodyKeywords, k) /\ Len(k) > 0

\* is_compliant = has_person and has_hardhat and has_gloves and has_vest
IsCompliantNoGloves(has_person, has_hardhat, has_gloves, has_vest) ==
    has_person /\ has_hardhat /\ has_vest
IsCompliant(has_person, has_hardhat, has_gloves, has_vest) ==
    has_person /\ has_hardhat /\ has_gloves /\ has_vest

NoVerdict ==
    [has_person |-> FALSE, has_hardhat |-> FALSE, has_gloves |-> FALSE,
     has_vest |-> FALSE, is_compliant |-> FALSE]

Verdict(preds, threshold) ==
    LET classes == Classes(preds, threshold)
        p == HasPerson(classes)
        h == HasHardhat(classes)
        g == HasGloves(classes)
        b == HasVest(classes)
    IN  [has_person |-> p, has_hardhat |-> h, has_gloves |-> g,
         has_vest |-> b, is_compliant |-> IsCompliant(p, h, g, b)]

\* Everything the call computed: the counters of the summary, the verdict
\* of the compliance check, and the value returned ("raised" when an
\* exception left the function before its return statement).
AnalyzePredictions(preds, threshold) ==
    LET acc == ValidationLoop(preds, threshold, 1, LoopStart)
    IN  IF acc.raised # "none"
        THEN [loop |-> acc, valid_predictions |-> 0, verdict |-> NoVerdict,
              returned |-> "raised"]
        ELSE [loop |-> acc,
              valid_predictions |-> Len(preds) - acc.total_errors,
              verdict |-> Verdict(preds, threshold),
              returned |-> IF acc.total_errors = 0 THEN "True" ELSE "False"]

(***************************************************************************)
(* test_model.py : the categoriser of PPEModelTester.validate_predictions  *)
(***************************************************************************)
CategorizeCaseSensitive(class_name) ==
    IF class_name = s_person THEN "persons"
    ELSE IF ContainsAny(HeadKeywords, class_name)
    THEN "hardhat_helmet_head"
    ELSE IF ContainsAny(HandKeywords, class_name) THEN "gloves_hand"
    ELSE IF ContainsAny(BodyKeywords, class_name)
    THEN "vest_jacket_safety"
    ELSE "other"
Categorize(class_name) ==
    IF Lower(class_name) = s_person THEN "persons"
    ELSE IF ContainsAny(HeadKeywords, Lower(class_name))
    THEN "hardhat_helmet_head"
    ELSE IF ContainsAny(HandKeywords, Lower(class_name)) THEN "gloves_hand"
    ELSE IF ContainsAny(BodyKeywords, Lower(class_name))
    THEN "vest_jacket_safety"
    ELSE "other"

(***************************************************************************)
(* Inputs of analyze_predictions: detector output as the backends and a    *)
(* corrupt response can produce it.                                        *)
(***************************************************************************)
WellFormedPredictions ==
    { Pred(StrV(s_person), FloatV(100)),
      Pred(StrV(s_person), FloatV(39)),
      Pred(StrV(s_Person), FloatV(40)),
      Pred(StrV(s_no_person), FloatV(100)),
      Pred(StrV(s_hardhat), FloatV(100)),
      Pred(StrV(s_hardhat), FloatV(39)),
      Pred(StrV(s_gloves), FloatV(40)),
      Pred(StrV(s_vest), FloatV(100)),
      Pred(StrV(s_safety_glove), FloatV(100)),
      Pred(StrV(s_boots), FloatV(100)) }

MalformedPredictions ==
    { Pred(StrV(s_person), FloatV(120)),
      Pred(StrV(s_person), StrV(s_high)),
      Pred(NoneV, FloatV(100)),
      Without(Pred(StrV(s_hardhat), FloatV(100)), "x"),
      Without(Pred(StrV(s_person), FloatV(120)), "width") }

RawPredictions == WellFormedPredictions \cup MalformedPredictions

Thresholds == {confidence_threshold_default, 100}

PredictionLists == UNION {[1..n -> RawPredictions] : n \in 0..MaxPreds}

NoReport ==
    [loop |-> LoopStart, valid_predictions |-> 0, verdict |-> NoVerdict,
     returned |-> "pending"]

(***************************************************************************)
(* Specification of one analyze_predictions call.                          *)
(***************************************************************************)
FailoverIdle ==
    /\ script = "none"
    /\ fpc = "off"
    /\ response = <<>>
    /\ calls = <<>>
    /\ printed = <<>>
    /\ result = [outcome |-> "none", detections |-> 0, persons |-> 0]
    /\ frame_no = 0
    /\ tested_frames = 0
    /\ total_detections = 0
    /\ persons_found = 0

AnalyzeInit ==
    /\ apc = "ready"
    /\ predictions \in PredictionLists
    /\ confidence_threshold \in Thresholds
    /\ report = NoReport
    /\ FailoverIdle
    /\ ToolsIdle

analyze_predictions ==
    /\ apc = "ready"
    /\ report' = AnalyzePredictions(predictions, confidence_threshold)
    /\ apc' = "done"
    /\ UNCHANGED <<predictions, confidence_threshold>>
    /\ UNCHANGED failoverVars
    /\ UNCHANGED toolVars

AnalyzeNext == analyze_predictions

SpecAnalyze == AnalyzeInit /\ [][AnalyzeNext]_vars

(***************************************************************************)
(* test_video.py : test_video_file / test_frame, and quick_test.py :       *)
(* test_webcam.  Both post the frame to the local inference server and     *)
(* fall back to the cloud API.                                             *)
(*                                                                         *)
(* What one requests.post call can do: raise (connection refused, timeout) *)
(* or return a response with a status code and a body.  A body is JSON     *)
(* with a "predictions" list, or text that response.json() cannot parse.   *)
(***************************************************************************)
LocalEndpoint == "local"      \* f"{API_URL}/{MODEL}/{VERSION}"
CloudEndpointWrong == "local"
CloudEndpoint == "cloud"      \* f"{CLOUD_API}/{MODEL}/{VERSION}"

BodyPredictions ==
    { Pred(StrV(s_person), FloatV(95)), Pred(StrV(s_hardhat), FloatV(88)) }

BodyLists == UNION {[1..n -> BodyPredictions] : n \in 0..MaxBodyPreds}

Raised(exc) ==
    [raised |-> exc, status_code |-> 0, json |-> FALSE, preds |-> <<>>]
Http(status_code, json, preds) ==
    [raised |-> "none", status_code |-> status_code, json |-> json,
     preds |-> preds]

PostOutcomes ==
    {Raised(exc) : exc \in {"ConnectionError", "Timeout"}}
      \cup {Http(st, FALSE, <<>>) : st \in {200, 404, 500}}
      \cup {Http(200, TRUE, l) : l \in BodyLists}

\* the log entry of one requests.post call: where it went, for which frame,
\* and what came back
Call(endpoint, o) ==
    [endpoint |-> endpoint, frame |-> frame_no, raised |-> o.raised,
     status_code |-> o.status_code, json |-> o.json, preds |-> o.preds]

\* a printed message: its text, and the failure cause it shows (an
\* exception, a status code, or neither)
Msg(text, exc, status_code) ==
    [text |-> text, exc |-> exc, status_code |-> status_code]

NoResult == [outcome |-> "none",    detections |-> 0, persons |-> 0]
Failure  == [outcome |-> "error",   detections |-> 0, persons |-> 0]

\* if response.status_code != 200: (first test, the fallback)
NeedsFallbackAlways(status_code) == TRUE
NeedsFallback(status_code) == status_code # 200

\* if response.status_code != 200: (second test, the API error)
IsApiError(status_code) == status_code # 200

\* [p for p in preds if "person" in p.get("class", "").lower()]
Persons(preds) ==
    SelectSeq(preds, LAMBDA p :
        Contains(s_person, Lower(Get(p, "class", StrV(<<>>)).s)))

\* From response.json() to the return statement.  response.json() raises
\* on a body that is not JSON; the except clause of the script prints it.
Finish(o) ==
    IF ~o.json
    THEN /\ printed' = Append(printed, Msg("Error", "JSONDecodeError", 0))
         /\ result' = Failure
    ELSE /\ printed' = printed
         /\ result' = [outcome |-> "success", detections |-> Len(o.preds),
                       persons |-> Len(Persons(o.preds))]

\* ---- test_video.py ----

\* test_video_file: one iteration of the loop over frame_indices, up to the
\* call of test_frame.  A frame that cannot be read is skipped.
test_video_file_read ==
    /\ script = "test_video"
    /\ fpc = "idle"
    /\ frame_no < MaxFrames
    /\ frame_no' = frame_no + 1
    /\ \E ret \in BOOLEAN :
          fpc' = IF ret THEN "primary" ELSE "idle"
    /\ response' = <<>>
    /\ calls' = <<>>
    /\ printed' = <<>>
    /\ result' = NoResult
    /\ UNCHANGED <<script, tested_frames, total_detections, persons_found>>
    /\ UNCHANGED analyzeVars
    /\ UNCHANGED toolVars

\* test_frame: the post to the local server, and what follows it when no
\* second request is made.
test_frame_primary ==
    /\ script = "test_video"
    /\ fpc = "primary"
    /\ \E o \in PostOutcomes :
          /\ calls' = Append(calls, Call(LocalEndpoint, o))
          /\ IF o.raised # "none"
             THEN /\ printed' = Append(printed, Msg("Error", o.raised, 0))
                  /\ result' = Failure
                  /\ response' = response
                  /\ fpc' = "done"
             ELSE IF NeedsFallback(o.status_code)
             THEN /\ response' = o
                  /\ fpc' = "secondary"
                  /\ UNCHANGED <<printed, result>>
             ELSE /\ response' = o
                  /\ fpc' = "done"
                  /\ IF IsApiError(o.status_code)
                     THEN /\ printed' = Append(printed,
                                 Msg("API Error", "none", o.status_code))
                          /\ result' = Failure
                     ELSE Finish(o)
    /\ UNCHANGED <<script, frame_no, tested_frames, total_detections,
                   persons_found>>
    /\ UNCHANGED analyzeVars
    /\ UNCHANGED toolVars

\* test_frame: the post to the cloud API, and what follows it.
test_frame_secondary ==
    /\ script = "test_video"
    /\ fpc = "secondary"
    /\ \E o \in PostOutcomes :
          /\ calls' = Append(calls, Call(CloudEndpoint, o))
          /\ fpc' = "done"
          /\ IF o.raised # "none"
             THEN /\ printed' = Append(printed, Msg("Error", o.raised, 0))
                  /\ result' = Failure
                  /\ response' = response
             ELSE /\ response' = o
                  /\ IF IsApiError(o.status_code)
                     THEN /\ printed' = Append(printed,
                                 Msg("API Error", "none", o.status_code))
                          /\ result' = Failure
                     ELSE Finish(o)
    /\ UNCHANGED <<script, frame_no, tested_frames, total_detections,
                   persons_found>>
    /\ UNCHANGED analyzeVars
    /\ UNCHANGED toolVars

\* test_video_file: what the loop does with the value test_frame returned.
test_video_file_collect ==
    /\ script = "test_video"
    /\ fpc = "done"
    /\ fpc' = "idle"
    /\ IF result.outcome = "success"
       THEN /\ tested_frames' = tested_frames + 1
            /\ total_detections' = total_detections + result.detections
            /\ persons_found' = persons_found + result.persons
       ELSE UNCHANGED <<tested_frames, total_detections, persons_found>>
    /\ UNCHANGED <<script, response, calls, printed, result, frame_no>>
    /\ UNCHANGED analyzeVars
    /\ UNCHANGED toolVars

\* ---- quick_test.py ----

\* test_webcam: opening the webcam and capturing the frame.  Without a
\* frame the function returns before any request.
test_webcam_capture ==
    /\ script = "quick_test"
    /\ fpc = "idle"
    /\ frame_no = 0
    /\ frame_no' = 1
    /\ \E ret \in BOOLEAN :
          IF ret
          THEN /\ fpc' = "primary"
               /\ printed' = printed
               /\ result' = NoResult
          ELSE /\ fpc' = "done"
               /\ printed' = Append(printed,
                                 Msg("Failed to capture frame", "none", 0))
               /\ result' = Failure
    /\ UNCHANGED <<script, response, calls, tested_frames, total_detections,
                   persons_found>>
    /\ UNCHANGED analyzeVars
    /\ UNCHANGED toolVars

\* the two except clauses of test_webcam
WebcamExcept(exc) ==
    IF exc = "ConnectionError"
    THEN Msg("Connection Error - is the inference server running?", exc, 0)
    ELSE Msg("Error", exc, 0)

\* test_webcam: from response.json() to the end; the response is saved and
\* analysed.  The except clause prints what response.json() raises.
FinishWebcam(o) ==
    IF ~o.json
    THEN /\ printed' = Append(printed, WebcamExcept("JSONDecodeError"))
         /\ result' = Failure
    ELSE /\ printed' = printed
         /\ result' = [outcome |-> "success", detections |-> Len(o.preds),
                       persons |-> Len(Persons(o.preds))]

\* test_webcam: the post to the local server, and what follows it when no
\* second request is made.
test_webcam_primary ==
    /\ script = "quick_test"
    /\ fpc = "primary"
    /\ \E o \in PostOutcomes :
          /\ calls' = Append(calls, Call(LocalEndpoint, o))
          /\ IF o.raised # "none"
             THEN /\ printed' = Append(printed, WebcamExcept(o.raised))
                  /\ result' = Failure
                  /\ response' = response
                  /\ fpc' = "done"
             ELSE IF NeedsFallback(o.status_code)
             THEN /\ response' = o
                  /\ printed' = Append(printed,
                         Msg("Local server error, trying cloud API",
                             "none", o.status_code))
                  /\ result' = result
                  /\ fpc' = "secondary"
             ELSE /\ response' = o
                  /\ fpc' = "done"
                  /\ FinishWebcam(o)
    /\ UNCHANGED <<script, frame_no, tested_frames, total_detections,
                   persons_found>>
    /\ UNCHANGED analyzeVars
    /\ UNCHANGED toolVars

\* test_webcam: the post to the cloud API, and what follows it.
test_webcam_secondary ==
    /\ script = "quick_test"
    /\ fpc = "secondary"
    /\ \E o \in PostOutcomes :
          /\ calls' = Append(calls, Call(CloudEndpoint, o))
          /\ fpc' = "done"
          /\ IF o.raised # "none"
             THEN /\ printed' = Append(printed, WebcamExcept(o.raised))
                  /\ result' = Failure
                  /\ response' = response
             ELSE /\ response' = o
                  /\ IF IsApiError(o.status_code)
                     THEN /\ printed' = Append(printed,
                                 Msg("Error", "none", o.status_code))
                          /\ result' = Failure
                     ELSE FinishWebcam(o)
    /\ UNCHANGED <<script, frame_no, tested_frames, total_detections,
                   persons_found>>
    /\ UNCHANGED analyzeVars
    /\ UNCHANGED toolVars

AnalyzeIdle ==
    /\ apc = "off"
    /\ predictions = <<>>
    /\ confidence_threshold = confidence_threshold_default
    /\ report = NoReport

FailoverInit ==
    /\ script \in {"test_video", "quick_test"}
    /\ fpc = "idle"
    /\ response = <<>>
    /\ calls = <<>>
    /\ printed = <<>>
    /\ result = NoResult
    /\ frame_no = 0
    /\ tested_frames = 0
    /\ total_detections = 0
    /\ persons_found = 0
    /\ AnalyzeIdle
    /\ ToolsIdle

InspectionStep ==
    \/ test_frame_primary
    \/ test_frame_secondary
    \/ test_webcam_primary
    \/ test_webcam_secondary

FailoverNext ==
    \/ test_video_file_read
    \/ test_video_file_collect
    \/ test_webcam_capture
    \/ InspectionStep

\* Every requests.post carries a timeout (10 s or 30 s), so a started
\* inspection always takes its next step.
SpecFailover ==
    FailoverInit /\ [][FailoverNext]_vars /\ WF_vars(InspectionStep)

(***************************************************************************)
(* Properties of the fallback.                                             *)
(***************************************************************************)
Failed(call) == call.raised # "none" \/ call.status_code # 200

CallsTo(endpoint) == {i \in 1..Len(calls) : calls[i].endpoint = endpoint}

\* the failure cause a call ended with, and the causes the messages show
Cause(call) == [exc |-> call.raised, status_code |-> call.status_code]
PrintedCauses ==
    {[exc |-> printed[i].exc, status_code |-> printed[i].status_code] :
        i \in 1..Len(printed)}

\* C1: failover on primary failure, as claimed.  When an inspection ends
\* whose call to the local server failed in any way (non-200 status or an
\* exception), the cloud API was called exactly once, for the same frame.
C1_FallbackOnAnyFailure ==
    (fpc = "done" /\ Len(calls) >= 1 /\ Failed(calls[1])) =>
        /\ Cardinality(CallsTo(CloudEndpoint)) = 1
        /\ \A i \in CallsTo(CloudEndpoint) : calls[i].frame = calls[1].frame

\* C2: failover on primary success.  When the local server answered 200 the
\* cloud API is never called, and a successful result is computed from the
\* local server's predictions.
C2_NoFallbackOnSuccess ==
    (Len(calls) >= 1 /\ calls[1].raised = "none"
                     /\ calls[1].status_code = 200) =>
        /\ CallsTo(CloudEndpoint) = {}
        /\ Len(calls) = 1
        /\ fpc # "secondary"
        /\ result.outcome = "success" =>
              /\ calls[1].json
              /\ result.detections = Len(calls[1].preds)
              /\ result.persons = Len(Persons(calls[1].preds))

\* C2 witness: an inspection that ended with the local server's 200
\* response and counted a person from it.
C2_Witness ==
    /\ fpc = "done"
    /\ Len(calls) = 1
    /\ calls[1].endpoint = LocalEndpoint
    /\ calls[1].status_code = 200
    /\ result.outcome = "success"
    /\ result.persons >= 1

\* C3: failover exhaustion, as claimed.  When both calls failed, the
\* inspection ends in an error without a verdict, and its output shows the
\* failure cause of the local call and the failure cause of the cloud call.
C3_ExhaustedCarriesBothCauses ==
    (fpc = "done" /\ Len(calls) = 2
                  /\ Failed(calls[1]) /\ Failed(calls[2])) =>
        /\ result = Failure
        /\ Cause(calls[1]) \in PrintedCauses
        /\ Cause(calls[2]) \in PrintedCauses

\* C4: bounded failover.  An inspection issues at most two requests, the
\* first to the local server, the second (only after the first returned a
\* non-200 status) to the cloud API, never twice to one endpoint; a
\* finished inspection has a terminal outcome, every step moves a running
\* inspection forward, and a started inspection always finishes.
C4_StateOk ==
    /\ Len(calls) <= 2
    /\ Len(calls) >= 1 => calls[1].endpoint = LocalEndpoint
    /\ Len(calls) = 2 =>
          /\ calls[2].endpoint = CloudEndpoint
          /\ calls[1].raised = "none"
          /\ calls[1].status_code # 200
    /\ \A i, j \in 1..Len(calls) :
          calls[i].endpoint = calls[j].endpoint => i = j
    /\ fpc = "primary" => calls = <<>>
    /\ fpc = "secondary" => Len(calls) = 1
    /\ fpc = "done" => result.outcome \in {"success", "error"}

C4_StepOk ==
    /\ fpc = "primary" => fpc' \in {"secondary", "done"}
    /\ fpc = "secondary" => fpc' = "done"
    /\ Len(calls') <= Len(calls) + 1 \/ calls' = <<>>

C4_BoundedFailover ==
    /\ []C4_StateOk
    /\ [][C4_StepOk]_vars
    /\ (fpc = "primary" ~> fpc = "done")

\* C4 witness: an inspection that ended successfully after two requests.
C4_Witness ==
    /\ fpc = "done"
    /\ Len(calls) = 2
    /\ calls[1].endpoint = LocalEndpoint
    /\ calls[2].endpoint = CloudEndpoint
    /\ result.outcome = "success"

(***************************************************************************)
(* Properties of analyze_predictions.                                      *)
(***************************************************************************)
Completed == apc = "done" /\ report.returned # "raised"

\* lower-cased class name and confidence (hundredths) of record i
ClassAt(i) == Lower(ClassOf(predictions[i]).s)
ConfAt(i)  == ConfOf(predictions[i]).n

\* the records with confidence >= threshold
Kept == {i \in 1..Len(predictions) : ConfAt(i) >= confidence_threshold}

\* the records for which validation reports no error
ErrorFree ==
    {i \in 1..Len(predictions) :
        validate_prediction_format(predictions[i]).errors = <<>>}

C6_CompliancePredicate ==
    Completed =>
        (report.verdict.is_compliant <=>
            /\ report.verdict.has_person
            /\ report.verdict.has_hardhat
            /\ report.verdict.has_gloves
            /\ report.verdict.has_vest)

\* C6 witness: a completed analysis whose verdict is compliant.
C6_Witness ==
    /\ Completed
    /\ report.verdict.is_compliant
    /\ report.verdict.has_gloves

\* C7: taxonomy priority, as claimed.  Each coverage flag is set only by
\* kept records whose first-match category (PERSON, HEAD, HAND, BODY,
\* OTHER) is that flag's category.
C7_FirstMatchCoverage ==
    Completed =>
        /\ report.verdict.has_hardhat <=>
              \E i \in Kept : Categorize(ClassAt(i)) = "hardhat_helmet_head"
        /\ report.verdict.has_gloves <=>
              \E i \in Kept : Categorize(ClassAt(i)) = "gloves_hand"
        /\ report.verdict.has_vest <=>
              \E i \in Kept : Categorize(ClassAt(i)) = "vest_jacket_safety"

\* C8: person presence, as claimed.  has_person is true iff some kept
\* record has a class name equal, ignoring case, to "person".
C8_PersonEquals ==
    Completed =>
        (report.verdict.has_person <=>
            \E i \in Kept : ClassAt(i) = s_person)

\* C9: normalization never fails the batch, as claimed.  Every call ends
\* without an exception, with one validation report per record.
C9_NeverFailsBatch ==
    apc = "done" =>
        /\ report.returned # "raised"
        /\ Len(report.loop.reports) = Len(predictions)

\* C10: rejected records do not flow downstream, as claimed.  The person
\* count, the passed-threshold count and the coverage flags are those of
\* the records without validation errors.
C10_RejectedExcluded ==
    Completed =>
        /\ report.loop.persons_found =
              Cardinality({i \in ErrorFree : ClassAt(i) = s_person})
        /\ report.loop.passed_threshold = Cardinality(ErrorFree \cap Kept)
        /\ report.verdict.has_person <=>
              \E i \in ErrorFree \cap Kept : Contains(s_person, ClassAt(i))
        /\ report.verdict.has_hardhat <=>
              \E i \in ErrorFree \cap Kept :
                  ContainsAny(HeadKeywords, ClassAt(i))
        /\ report.verdict.has_gloves <=>
              \E i \in ErrorFree \cap Kept :
                  ContainsAny(HandKeywords, ClassAt(i))
        /\ report.verdict.has_vest <=>
              \E i \in ErrorFree \cap Kept :
                  ContainsAny(BodyKeywords, ClassAt(i))

(***************************************************************************)
(* Specification of one validate_prediction_format call on one record.     *)
(***************************************************************************)
s_uuid == <<"a","1","b","2">>

\* the values each key of the record is drawn from
XValues == {IntV(320), FloatV(32050), StrV(s_high), Missing}
YValues == {IntV(240), Missing}
WidthValues == {IntV(150), Missing}
HeightValues == {IntV(200), Missing}
ConfidenceValues == {FloatV(0), FloatV(50), FloatV(100), FloatV(120),
                     FloatV(-1), IntV(1), StrV(s_high), NoneV, Missing}
ClassValues == {StrV(s_person), StrV(<<>>), NoneV, IntV(7), Missing}
ClassIdValues == {Missing, IntV(0), StrV(s_person), FloatV(50), NoneV}
DetectionIdValues == {Missing, StrV(s_uuid), FloatV(150), ListV}

Records ==
    {[f \in Fields |->
        CASE f = "x" -> x
          [] f = "y" -> y
          [] f = "width" -> w
          [] f = "height" -> h
          [] f = "confidence" -> c
          [] f = "class" -> k
          [] f = "class_id" -> ci
          [] f = "detection_id" -> di] :
      x \in XValues, y \in YValues, w \in WidthValues, h \in HeightValues,
      c \in ConfidenceValues, k \in ClassValues, ci \in ClassIdValues,
      di \in DetectionIdValues}

ValidateInit ==
    /\ vpc = "ready"
    /\ pred_in \in Records
    /\ validation = [raised |-> "none", errors |-> <<>>, warnings |-> <<>>]
    /\ AnalyzeIdle
    /\ FailoverIdle
    /\ ServiceIdle
    /\ TesterIdle
    /\ DiagnoseIdle
    /\ VideoIdle

call_validate_prediction_format ==
    /\ vpc = "ready"
    /\ validation' = validate_prediction_format(pred_in)
    /\ vpc' = "done"
    /\ UNCHANGED pred_in
    /\ UNCHANGED <<analyzeVars, failoverVars, serviceVars, testerVars,
                   diagnoseVars, videoVars>>

ValidateNext == call_validate_prediction_format

SpecValidate == ValidateInit /\ [][ValidateNext]_vars

(***************************************************************************)
(* Properties of validate_prediction_format.                               *)
(***************************************************************************)
Returned == vpc = "done" /\ validation.raised = "none"

ErrorsAbout(field) ==
    {i \in 1..Len(validation.errors) : validation.errors[i].field = field}

WarningsAbout(field) ==
    {i \in 1..Len(validation.warnings) : validation.warnings[i].field = field}

\* the six required fields are present, the five numeric ones hold a number,
\* confidence lies in the closed interval [0, 1] and class is a string
MeetsRequiredRules ==
    /\ \A i \in 1..Len(required_fields) : Has(pred_in, required_fields[i])
    /\ \A f \in {"x", "y", "width", "height", "confidence"} :
          pred_in[f].t \in {"int", "float"}
    /\ pred_in["confidence"].n >= 0
    /\ pred_in["confidence"].n <= 100
    /\ pred_in["class"].t = "str"

\* C11: a finished validate_prediction_format call returned an empty error
\* list exactly when the record has all six required fields, numeric x, y,
\* width, height and confidence, a confidence in the closed interval [0, 1]
\* (0 and 1 included) and a string class; and the list it returned holds one
\* error of its own for every required field that is missing.
C11_ValidityCharacterization ==
    vpc = "done" =>
        /\ (validation.raised = "none" /\ validation.errors = <<>>)
              <=> MeetsRequiredRules
        /\ Returned =>
              \A i \in 1..Len(required_fields) :
                  ~Has(pred_in, required_fields[i]) =>
                      \E j \in ErrorsAbout(required_fields[i]) :
                          /\ validation.errors[j].kind = "missing"
                          /\ \A k \in ErrorsAbout(required_fields[i]) : k = j

\* a record with confidence exactly 1.0 and nothing wrong was accepted
C11_Witness ==
    /\ Returned
    /\ pred_in["confidence"] = FloatV(100)
    /\ MeetsRequiredRules
    /\ validation.errors = <<>>

\* C12: a record whose class is the empty string is returned with an error
\* about its class.
C12_EmptyClassRejected ==
    (Returned /\ pred_in["class"] = StrV(<<>>)) => ErrorsAbout("class") # {}

\* C13 as stated: optional fields never add an error, and an optional field
\* holding a string, an integer or a float adds no warning.
C13_ScalarOptionalNoWarning ==
    Returned =>
        /\ MeetsRequiredRules => validation.errors = <<>>
        /\ \A i \in 1..Len(optional_fields) :
              /\ ErrorsAbout(optional_fields[i]) = {}
              /\ pred_in[optional_fields[i]].t \in {"str", "int", "float"}
                    => WarningsAbout(optional_fields[i]) = {}

\* C13, amended: optional fields never add an error (a record that meets the
\* required rules has an empty error list whatever they hold), and an
\* optional field adds a warning exactly when it is present and is neither a
\* string nor an integer: a float adds a warning.
C13_OptionalFieldsWarnOnly ==
    Returned =>
        /\ MeetsRequiredRules => validation.errors = <<>>
        /\ \A i \in 1..Len(optional_fields) :
              /\ ErrorsAbout(optional_fields[i]) = {}
              /\ WarningsAbout(optional_fields[i]) # {}
                    <=> /\ pred_in[optional_fields[i]].t # "missing"
                        /\ pred_in[optional_fields[i]].t \notin {"str", "int"}

\* a float class_id drew a warning and no error
C13_Witness ==
    /\ Returned
    /\ MeetsRequiredRules
    /\ pred_in["class_id"] = FloatV(50)
    /\ WarningsAbout("class_id") # {}
    /\ validation.errors = <<>>

(***************************************************************************)
(* Which backend answered (test_video.py, quick_test.py).                  *)
(***************************************************************************)
\* the call returned a body with a person detection of confidence 0.95
ReturnedPerson95(call) ==
    /\ ~Failed(call)
    /\ call.json
    /\ \E i \in 1..Len(call.preds) :
          call.preds[i] = Pred(StrV(s_person), FloatV(95))

\* C15: an inspection whose primary call timed out consulted the secondary
\* backend, and when that returned a person at 0.95 the result reports a
\* person; every successful result carries a backend tag naming the backend
\* whose response it was computed from.
C15_BackendTagOnFailover ==
    /\ (fpc = "done" /\ calls # <<>> /\ calls[1].raised = "Timeout") =>
          /\ Len(calls) = 2
          /\ calls[2].endpoint = CloudEndpoint
          /\ ReturnedPerson95(calls[2]) =>
                (result.outcome = "success" /\ result.persons >= 1)
    /\ (fpc = "done" /\ result.outcome = "success") =>
          /\ "backend" \in DOMAIN result
          /\ result["backend"] =
                (IF calls[Len(calls)].endpoint = CloudEndpoint
                 THEN "secondary" ELSE "primary")

(***************************************************************************)
(* inference_service.py : the service loop, process_frame and the two      *)
(* detectors.  A detection is [class, confidence]; the box coordinates are *)
(* copied through unchanged and left out.  A frame decodes to 640 x 480.   *)
(***************************************************************************)
s_car == <<"c","a","r">>

Box(cls, conf) == [class |-> cls, confidence |-> conf]

\* what each model sees in a frame, before its confidence cut
PersonScenes == {<<>>, <<Box(s_person, 45), Box(s_person, 55), Box(s_car, 90)>>}
HardhatScenes == {<<>>, <<Box(s_hardhat, 55), Box(s_hardhat, 65),
                          Box(s_helmet, 80)>>}

\* one call of a YOLO model: it raises, or returns the boxes of the scene
\* whose confidence exceeds conf
ModelRaised == [raised |-> TRUE, boxes |-> <<>>]
ModelNotCalled == [raised |-> FALSE, boxes |-> <<>>]
ModelOutcomes(scenes) ==
    {ModelRaised} \cup {[raised |-> FALSE, boxes |-> sc] : sc \in scenes}
Yolo(boxes, conf) == SelectSeq(boxes, LAMBDA b : b.confidence > conf)

PersonFloor == 50
HardhatFloor == 60
MinOf(a, b) == IF a <= b THEN a ELSE b
MaxOf(a, b) == IF a >= b THEN a ELSE b

\* min_conf = max(0.5, conf_threshold), and max(0.6, conf_threshold)
person_min_conf(conf_threshold) == MaxOf(PersonFloor, conf_threshold.n)
hardhat_min_conf(conf_threshold) == MaxOf(HardhatFloor, conf_threshold.n)

\* detect_persons: [failed, detections].  max(0.5, conf_threshold) raises
\* TypeError for a threshold that is not a number; every exception is
\* logged to stderr and turned into an empty list.
detect_persons_any(m, conf_threshold) ==
    IF ~IsNumeric(conf_threshold) \/ m.raised
    THEN [failed |-> TRUE, detections |-> <<>>]
    ELSE [failed |-> FALSE,
          detections |-> Yolo(m.boxes, person_min_conf(conf_threshold))]
detect_persons(m, conf_threshold) ==
    IF ~IsNumeric(conf_threshold) \/ m.raised
    THEN [failed |-> TRUE, detections |-> <<>>]
    ELSE [failed |-> FALSE,
          detections |->
              SelectSeq(Yolo(m.boxes, person_min_conf(conf_threshold)),
                        LAMBDA b : b.class = s_person)]

\* detect_hathats: the same with the hard-hat model, keeping every class
detect_hathats(m, conf_threshold) ==
    IF ~IsNumeric(conf_threshold) \/ m.raised
    THEN [failed |-> TRUE, detections |-> <<>>]
    ELSE [failed |-> FALSE,
          detections |-> Yolo(m.boxes, hardhat_min_conf(conf_threshold))]

ErrorResult(error) == [success |-> FALSE, error |-> error]

\* process_frame(frame_data, conf_threshold), with the outcomes pm and hm of
\* the two model calls
process_frame(image, conf_threshold, pm, hm) ==
    IF image # "ok"
    THEN ErrorResult("decode")
    ELSE LET person_detections == detect_persons(pm, conf_threshold).detections
             hardhat_detections == detect_hathats(hm, conf_threshold).detections
         IN  [success |-> TRUE, frame_width |-> 640, frame_height |-> 480,
              detections |-> person_detections \o hardhat_detections,
              person_count |-> Len(person_detections),
              hardhat_count |-> Len(hardhat_detections)]

\* A line of stdin: empty, not JSON, JSON that is not an object, or a
\* request {"image": ..., "confidence": ...}.  image is "ok" (base64 of an
\* image), "bad" (not decodable) or "absent" (data.get gives None).
Line(kind, image, confidence) ==
    [kind |-> kind, image |-> image, confidence |-> confidence]

Lines ==
    {Line("empty", "absent", Missing), Line("invalid_json", "absent", Missing),
     Line("not_object", "absent", Missing),
     Line("request", "bad", Missing), Line("request", "absent", Missing)}
      \cup {Line("request", "ok", c) :
              c \in {Missing, FloatV(-10), FloatV(0), FloatV(55),
                     FloatV(70), StrV(s_high)}}

LineSeqs == UNION {[1..n -> Lines] : n \in 0..MaxLines}

ServiceInit ==
    /\ svc = "running"
    /\ stdin \in LineSeqs
    /\ stdout = <<>>
    /\ svc_log = <<>>
    /\ eof_reads = 0
    /\ AnalyzeIdle
    /\ FailoverIdle
    /\ ValidateIdle
    /\ TesterIdle
    /\ DiagnoseIdle
    /\ VideoIdle

\* the svc_log entry of one line: the line, the outcome of each model call,
\* whether each detector failed, the index of its result in stdout (0 when
\* nothing was printed), the conf each model was called with (0 when it
\* was not called), and whether the iteration ran to its end
Served(line, pm, hm, pfailed, hfailed, out, pconf, hconf, completed) ==
    [line |-> line, pm |-> pm, hm |-> hm, pfailed |-> pfailed,
     hfailed |-> hfailed, out |-> out, pconf |-> pconf, hconf |-> hconf,
     completed |-> completed]

\* if not line: continue
IsBlankNever(line) == FALSE
IsBlank(line) == line.kind = "empty"

\* main: one iteration of the while loop that reads a line
main_iteration ==
    /\ svc = "running"
    /\ stdin # <<>>
    /\ LET line == Head(stdin)
           conf_threshold == Get(line, "confidence", FloatV(50))
           out == Len(stdout) + 1
       IN  /\ stdin' = Tail(stdin)
           /\ CASE IsBlank(line) ->
                     /\ stdout' = stdout
                     /\ svc_log' = Append(svc_log,
                           Served(line, ModelNotCalled, ModelNotCalled,
                                  FALSE, FALSE, 0, 0, 0, TRUE))
                [] line.kind = "invalid_json" ->
                     /\ stdout' = Append(stdout, ErrorResult("Invalid JSON"))
                     /\ svc_log' = Append(svc_log,
                           Served(line, ModelNotCalled, ModelNotCalled,
                                  FALSE, FALSE, out, 0, 0, TRUE))
                [] line.kind = "not_object" ->
                     /\ stdout' = Append(stdout, ErrorResult("AttributeError"))
                     /\ svc_log' = Append(svc_log,
                           Served(line, ModelNotCalled, ModelNotCalled,
                                  FALSE, FALSE, out, 0, 0, TRUE))
                [] line.kind = "request" /\ line.image # "ok" ->
                     /\ stdout' = Append(stdout,
                           process_frame(line.image, conf_threshold,
                                         ModelNotCalled, ModelNotCalled))
                     /\ svc_log' = Append(svc_log,
                           Served(line, ModelNotCalled, ModelNotCalled,
                                  FALSE, FALSE, out, 0, 0, TRUE))
                [] OTHER ->
                     \E pm \in ModelOutcomes(PersonScenes),
                        hm \in ModelOutcomes(HardhatScenes) :
                         LET pcalled == IF IsNumeric(conf_threshold)
                                        THEN pm ELSE ModelNotCalled
                             hcalled == IF IsNumeric(conf_threshold)
                                        THEN hm ELSE ModelNotCalled
                         IN
                         /\ stdout' = Append(stdout,
                               process_frame(line.image, conf_threshold,
                                             pcalled, hcalled))
                         /\ svc_log' = Append(svc_log,
                               Served(line, pcalled, hcalled,
                                   detect_persons(pcalled, conf_threshold).failed,
                                   detect_hathats(hcalled, conf_threshold).failed,
                                   out,
                                   IF IsNumeric(conf_threshold)
                                   THEN person_min_conf(conf_threshold) ELSE 0,
                                   IF IsNumeric(conf_threshold)
                                   THEN hardhat_min_conf(conf_threshold) ELSE 0,
                                   TRUE))
    /\ UNCHANGED <<svc, eof_reads>>
    /\ UNCHANGED <<analyzeVars, failoverVars, validateVars, testerVars,
                   diagnoseVars, videoVars>>

\* main: input() at the end of stdin raises EOFError, which the last except
\* clause prints as an error result; the loop goes on
main_eof ==
    /\ svc = "running"
    /\ stdin = <<>>
    /\ eof_reads < MaxEofReads
    /\ eof_reads' = eof_reads + 1
    /\ stdout' = Append(stdout, ErrorResult("EOF when reading a line"))
    /\ UNCHANGED <<svc, stdin, svc_log>>
    /\ UNCHANGED <<analyzeVars, failoverVars, validateVars, testerVars,
                   diagnoseVars, videoVars>>

\* main: KeyboardInterrupt, while waiting in input() or while a request is
\* being processed (its line is consumed and nothing is printed for it)
main_interrupt ==
    /\ svc = "running"
    /\ svc' = "stopped"
    /\ \E processing \in BOOLEAN :
          IF processing /\ stdin # <<>> /\ Head(stdin).kind = "request"
          THEN /\ stdin' = Tail(stdin)
               /\ svc_log' = Append(svc_log,
                     Served(Head(stdin), ModelNotCalled, ModelNotCalled,
                            FALSE, FALSE, 0, 0, 0, FALSE))
          ELSE UNCHANGED <<stdin, svc_log>>
    /\ UNCHANGED <<stdout, eof_reads>>
    /\ UNCHANGED <<analyzeVars, failoverVars, validateVars, testerVars,
                   diagnoseVars, videoVars>>

ServiceNext ==
    \/ main_iteration
    \/ main_eof
    \/ main_interrupt

SpecService == ServiceInit /\ [][ServiceNext]_vars

(***************************************************************************)
(* Properties of the inference service.                                    *)
(***************************************************************************)
\* C14: whenever a detector could not run for a request (its model call
\* raised, or the detector failed before calling it), the result printed
\* for that request is an explicit error, not a success.
C14_NoSilentEmptySuccess ==
    \A i \in 1..Len(svc_log) :
        (svc_log[i].out > 0 /\ (svc_log[i].pfailed \/ svc_log[i].hfailed))
            => ~stdout[svc_log[i].out].success

(***************************************************************************)
(* test_model.py : PPEModelTester as main drives it.  main calls           *)
(* run_full_test twice on the webcam and a third time on a test image when *)
(* one exists; nothing catches an exception that leaves run_full_test.     *)
(***************************************************************************)
LocalUrl == "local"     \* f"{ROBOFLOW_API_URL}/{ROBOFLOW_MODEL}/{ROBOFLOW_VERSION}"
CloudUrl == "cloud"     \* f"https://detect.roboflow.com/{ROBOFLOW_MODEL}/..."

ApiKeys == {<<>>, s_key}

\* the run_full_test calls of main, by label
TestLabels == <<"webcam_test", "webcam_test_2", "test_image">>

\* detections a response can carry: a capitalised class and a null class
TesterPredictions ==
    { Pred(StrV(s_Person), FloatV(90)), Pred(NoneV, FloatV(60)) }

\* a person wearing hard hat, gloves and vest, as a model with capitalised
\* class names reports it
FullKit ==
    << Pred(StrV(s_Person), FloatV(90)), Pred(StrV(s_HardHat), FloatV(80)),
       Pred(StrV(s_Gloves), FloatV(70)), Pred(StrV(s_Safety_Vest), FloatV(60)) >>

\* a detection without a class key next to one of an unlisted class
Unclassified ==
    << Without(Pred(StrV(s_person), FloatV(80)), "class"),
       Pred(StrV(s_boots), FloatV(70)) >>

TesterLists ==
    UNION {[1..n -> TesterPredictions] : n \in 0..MaxTestPreds}
      \cup {FullKit, Unclassified}

\* What one requests.post can do.  body is "object" (JSON with a
\* "predictions" list), "no_key" (JSON without that key) or "not_json".
TOut(raised, status_code, body, preds) ==
    [raised |-> raised, status_code |-> status_code, body |-> body,
     preds |-> preds]

NoOutcome == TOut("none", 0, "none", <<>>)

TesterOutcomes ==
    {TOut(exc, 0, "none", <<>>) : exc \in {"ConnectionError", "Timeout"}}
      \cup {TOut("none", 404, "not_json", <<>>),
            TOut("none", 200, "not_json", <<>>),
            TOut("none", 200, "no_key", <<>>)}
      \cup {TOut("none", 200, "object", l) : l \in TesterLists}

\* the requests.post calls of one test_model_prediction call whose post
\* ends in outcome o
ClientPostsRetry(run, url, key, o) ==
    IF o.raised # "none" \/ o.status_code # 200
    THEN << [run |-> run, url |-> url, api_key |-> key, outcome |-> o],
            [run |-> run, url |-> url, api_key |-> key, outcome |-> o] >>
    ELSE << [run |-> run, url |-> url, api_key |-> key, outcome |-> o] >>
ClientPosts(run, url, key, o) ==
    << [run |-> run, url |-> url, api_key |-> key, outcome |-> o] >>

\* what test_model_prediction returns: None, or the parsed body
ReturnedNone == [none |-> TRUE, body |-> "none", preds |-> <<>>]
test_model_prediction(o) ==
    IF o.raised # "none" THEN ReturnedNone
    ELSE IF o.status_code # 200 THEN ReturnedNone
    ELSE IF o.body = "not_json" THEN ReturnedNone
    ELSE [none |-> FALSE, body |-> o.body, preds |-> o.preds]

\* validate_predictions: the counters of the analysis dict
TesterCategories ==
    {"persons", "hardhat_helmet_head", "gloves_hand", "vest_jacket_safety",
     "other"}

ZeroCounts == [c \in TesterCategories |-> 0]

\* analysis[category] += 1, in the branch of the elif chain that is taken
CountNoOther(counts, category) ==
    IF category = "other" THEN counts
    ELSE [counts EXCEPT ![category] = counts[category] + 1]
Count(counts, category) ==
    [counts EXCEPT ![category] = counts[category] + 1]

\* the loop over preds, from index i on; pred.get("class", "Unknown")
RECURSIVE CategoryLoop(_, _, _)
CategoryLoop(preds, i, counts) ==
    IF i > Len(preds) THEN counts
    ELSE LET class_name == Get(preds[i], "class", StrV(s_Unknown)).s
             category == Categorize(class_name)
         IN  CategoryLoop(preds, i + 1, Count(counts, category))

\* analysis["by_class"]: per class name as the response spells it, the
\* count, the confidences and the detections (of which the confidence is
\* kept here; position and size are copied from the record)
NoClasses == [k \in {} |-> 0]

RECURSIVE ByClassLoop(_, _, _)
ByClassLoop(preds, i, by_class) ==
    IF i > Len(preds) THEN by_class
    ELSE LET class_name == Get(preds[i], "class", StrV(s_Unknown)).s
             confidence == Get(preds[i], "confidence", IntV(0)).n
             entry == IF class_name \in DOMAIN by_class
                      THEN by_class[class_name]
                      ELSE [count |-> 0, confidences |-> <<>>,
                            detections |-> <<>>]
             updated == [count |-> entry.count + 1,
                         confidences |-> Append(entry.confidences, confidence),
                         detections |-> Append(entry.detections,
                                               [confidence |-> confidence])]
         IN  ByClassLoop(preds, i + 1,
                 [k \in DOMAIN by_class \cup {class_name} |->
                     IF k = class_name THEN updated ELSE by_class[k]])

IsPositive(count) == count > 0

\* the analysis dict; present is FALSE for the {} returned when the
\* response has no "predictions" key
Analysis(present, total, counts, by_class) ==
    LET has_person == IsPositive(counts["persons"])
        has_protection == /\ IsPositive(counts["hardhat_helmet_head"])
                          /\ IsPositive(counts["gloves_hand"])
                          /\ IsPositive(counts["vest_jacket_safety"])
    IN  [present |-> present, total_detections |-> total, counts |-> counts,
         by_class |-> by_class,
         compliance |-> [has_person |-> present /\ has_person,
                         has_protection |-> present /\ has_protection,
                         is_compliant |->
                             present /\ has_person /\ has_protection]]

NoAnalysis == Analysis(FALSE, 0, ZeroCounts, NoClasses)

\* validate_predictions(predictions): [raised, analysis].  class_name.lower()
\* raises AttributeError when a class is not a string.
validate_predictions(p) ==
    IF p.body = "no_key" THEN [raised |-> FALSE, analysis |-> NoAnalysis]
    ELSE IF \E i \in 1..Len(p.preds) :
                ~IsStr(Get(p.preds[i], "class", StrV(s_Unknown)))
    THEN [raised |-> TRUE, analysis |-> NoAnalysis]
    ELSE [raised |-> FALSE,
          analysis |-> Analysis(TRUE, Len(p.preds),
                                CategoryLoop(p.preds, 1, ZeroCounts),
                                ByClassLoop(p.preds, 1, NoClasses))]

TestCalls == 3

TesterInit ==
    /\ tpc = "running"
    /\ api_key \in ApiKeys
    /\ runs = 0
    /\ posts = <<>>
    /\ run_log = <<>>
    /\ test_results = [total_frames |-> 0, successful_predictions |-> 0,
                       failed_predictions |-> 0, frames |-> <<>>]
    /\ AnalyzeIdle
    /\ FailoverIdle
    /\ ValidateIdle
    /\ ServiceIdle
    /\ DiagnoseIdle
    /\ VideoIdle

\* the run_log entry of one run_full_test call
Run(run, label, captured, outcome, client, returned) ==
    [run |-> run, label |-> label, captured |-> captured,
     outcome |-> outcome, client |-> client, returned |-> returned]

\* run_full_test, one call made by main
run_full_test ==
    /\ tpc = "running"
    /\ runs < TestCalls
    /\ runs' = runs + 1
    /\ LET run == runs + 1
           label == TestLabels[run]
       IN  \E captured \in BOOLEAN :
             IF ~captured
             THEN /\ run_log' = Append(run_log,
                        Run(run, label, FALSE, NoOutcome, ReturnedNone, "None"))
                  /\ UNCHANGED <<tpc, posts, test_results>>
             ELSE \E o \in TesterOutcomes :
                    LET returned == test_model_prediction(o)
                        v == validate_predictions(returned)
                    IN  /\ posts' = posts \o ClientPosts(run, LocalUrl, api_key, o)
                        /\ IF returned.none
                           THEN /\ run_log' = Append(run_log,
                                      Run(run, label, TRUE, o, returned, "None"))
                                /\ UNCHANGED <<tpc, test_results>>
                           ELSE IF v.raised
                           THEN /\ run_log' = Append(run_log,
                                      Run(run, label, TRUE, o, returned,
                                          "raised"))
                                /\ tpc' = "crashed"
                                /\ UNCHANGED test_results
                           ELSE /\ run_log' = Append(run_log,
                                      Run(run, label, TRUE, o, returned,
                                          "result"))
                                /\ test_results' =
                                      [test_results EXCEPT
                                         !.total_frames = @ + 1,
                                         !.successful_predictions = @ + 1,
                                         !.frames = Append(@,
                                            [label |-> label,
                                             total_detections |->
                                                 v.analysis.total_detections,
                                             analysis |-> v.analysis,
                                             saved_files |-> label])]
                                /\ UNCHANGED tpc
    /\ UNCHANGED api_key
    /\ UNCHANGED <<analyzeVars, failoverVars, validateVars, serviceVars,
                   diagnoseVars, videoVars>>

\* main: the summary, after the two webcam tests or after the third test
main_summary ==
    /\ tpc = "running"
    /\ runs >= 2
    /\ tpc' = "finished"
    /\ UNCHANGED <<api_key, runs, posts, run_log, test_results>>
    /\ UNCHANGED <<analyzeVars, failoverVars, validateVars, serviceVars,
                   diagnoseVars, videoVars>>

TesterNext ==
    \/ run_full_test
    \/ main_summary

SpecTester == TesterInit /\ [][TesterNext]_vars

(***************************************************************************)
(* Properties of PPEModelTester.                                           *)
(***************************************************************************)
\* the run_log entries in which test_model_prediction was called
ClientCalls == {i \in 1..Len(run_log) : run_log[i].captured}

\* the run that appended frames entry e
RunOf(e) == CHOOSE i \in 1..Len(run_log) : run_log[i].label = e.label

FrameEntries == {test_results.frames[i] : i \in 1..Len(test_results.frames)}

\* C16: a frames entry carries a diagnostic report exactly when its number
\* of detections is at most the floor 0; in particular an entry built from
\* a successful response with an empty prediction list has zero detections,
\* is not compliant and carries a diagnostic report.
C16_EmptyResultDiagnosis ==
    \A e \in FrameEntries :
        /\ ("diagnostic" \in DOMAIN e) <=> (e.total_detections <= 0)
        /\ (run_log[RunOf(e)].client.body = "object"
              /\ run_log[RunOf(e)].client.preds = <<>>) =>
              /\ e.total_detections = 0
              /\ ~e.analysis.compliance.is_compliant
              /\ "diagnostic" \in DOMAIN e

\* C17: the category counts of every analysis are the counts obtained by
\* categorising the lower-cased class names, whatever the position of a
\* detection in its response and whatever run the response belongs to.
C17_CaseInsensitiveCategories ==
    \A e \in FrameEntries :
        e.analysis.present =>
            LET preds == run_log[RunOf(e)].client.preds
                lowered == [i \in 1..Len(preds) |->
                    Categorize(Lower(
                        Get(preds[i], "class", StrV(s_Unknown)).s))]
            IN  e.analysis.counts =
                    [c \in TesterCategories |->
                        Cardinality({i \in 1..Len(preds) : lowered[i] = c})]

\* capitalised class names were counted under all four PPE categories
C17_Witness ==
    \E e \in FrameEntries :
        /\ run_log[RunOf(e)].client.preds = FullKit
        /\ e.analysis.counts["persons"] = 1
        /\ e.analysis.counts["hardhat_helmet_head"] = 1
        /\ e.analysis.counts["gloves_hand"] = 1
        /\ e.analysis.counts["vest_jacket_safety"] = 1

\* C18: every test_model_prediction call issued exactly one HTTP request,
\* to the local inference server, whether the request succeeded, returned a
\* non-200 status or raised; and a call whose request failed returned None,
\* without predictions.
C18_SingleRequestPerCall ==
    \A i \in ClientCalls :
        /\ Cardinality({j \in 1..Len(posts) : posts[j].run = run_log[i].run}) = 1
        /\ \A j \in 1..Len(posts) :
              posts[j].run = run_log[i].run =>
                  /\ posts[j].url = LocalUrl
                  /\ posts[j].outcome = run_log[i].outcome
        /\ (run_log[i].outcome.raised # "none"
              \/ run_log[i].outcome.status_code # 200) =>
                  /\ run_log[i].client.none
                  /\ run_log[i].client.preds = <<>>
                  /\ run_log[i].returned = "None"

\* a request that raised, one that returned 404 and one that succeeded, each
\* in a call of its own
C18_Witness ==
    /\ \E i \in ClientCalls : run_log[i].outcome.raised = "Timeout"
    /\ \E i \in ClientCalls : run_log[i].outcome.status_code = 404
    /\ \E i \in ClientCalls : ~run_log[i].client.none
    /\ Len(posts) = 3

\* C19: no request is ever sent with an empty API key; with the key unset
\* the run fails before test_model_prediction posts anything.
C19_NoRequestWithoutKey ==
    \A j \in 1..Len(posts) : posts[j].api_key # <<>>

(***************************************************************************)
(* diagnose_frame.py : analyze_frame.  The four measurements of the frame  *)
(* (mean and standard deviation of the grey image, variance of its         *)
(* Laplacian, share of edge pixels in percent) are inputs of the model.    *)
(***************************************************************************)
Cameras ==
    [video1 : BOOLEAN, video0 : BOOLEAN, ret : BOOLEAN]

Scenes ==
    [brightness : {0, 49, 50, 99, 100, 200, 201},
     contrast : {0, 19, 20, 21, 100, 101},
     sharpness : {0, 99, 100, 101},
     edge_density : {0, 4, 5, 9, 10, 11, 30, 31}]

\* the message printed about each measurement
BrightnessMessage(brightness) ==
    IF brightness < 50 THEN "VERY DARK"
    ELSE IF brightness < 100 THEN "DARK"
    ELSE IF brightness > 200 THEN "VERY BRIGHT"
    ELSE "Good lighting"

ContrastMessage(contrast) ==
    IF contrast < 20 THEN "LOW CONTRAST"
    ELSE IF contrast > 100 THEN "Good contrast"
    ELSE "Acceptable contrast"

SharpnessMessage(sharpness) ==
    IF sharpness < 100 THEN "BLURRY" ELSE "Sharp image"

EdgeMessages(edge_density) ==
    IF edge_density < 5 THEN {"Very few edges"}
    ELSE IF edge_density > 30 THEN {"Many edges"}
    ELSE {}

\* analysis["diagnostics"]
Diagnostics(sc) ==
    [lighting |-> IF 100 <= sc.brightness /\ sc.brightness <= 200
                  THEN "GOOD" ELSE "CHECK",
     contrast |-> IF sc.contrast > 20 THEN "GOOD" ELSE "CHECK",
     sharpness |-> IF sc.sharpness > 100 THEN "GOOD" ELSE "CHECK",
     has_objects |-> IF sc.edge_density > 10 THEN "LIKELY" ELSE "CHECK"]

\* the recommendations list
Recommendations(sc) ==
    (IF sc.brightness < 100 THEN <<"too dark">> ELSE <<>>)
      \o (IF sc.contrast < 20 THEN <<"low contrast">> ELSE <<>>)
      \o (IF sc.sharpness < 100 THEN <<"blurry">> ELSE <<>>)
      \o (IF sc.edge_density < 10 THEN <<"few objects">> ELSE <<>>)

\* cap.isOpened() of device 1, else of device 0
CameraOpens(cam) == cam.video1 \/ cam.video0

DiagnoseInit ==
    /\ dpc = "ready"
    /\ camera \in Cameras
    /\ scene \in Scenes
    /\ diagnosis = NoDiagnosis
    /\ AnalyzeIdle
    /\ FailoverIdle
    /\ ValidateIdle
    /\ ServiceIdle
    /\ TesterIdle
    /\ VideoIdle

\* analyze_frame(): it returns early, having saved nothing, when no webcam
\* opens or no frame is read
analyze_frame ==
    /\ dpc = "ready"
    /\ dpc' = "done"
    /\ IF ~CameraOpens(camera)
       THEN diagnosis' = [NoDiagnosis EXCEPT !.messages = {"Cannot open webcam"}]
       ELSE IF ~camera.ret
       THEN diagnosis' = [NoDiagnosis EXCEPT !.messages = {"Failed to capture"}]
       ELSE diagnosis' =
              [saved |-> TRUE, brightness |-> scene.brightness,
               contrast |-> scene.contrast, sharpness |-> scene.sharpness,
               edge_density |-> scene.edge_density,
               diagnostics |-> Diagnostics(scene),
               messages |-> {BrightnessMessage(scene.brightness),
                             ContrastMessage(scene.contrast),
                             SharpnessMessage(scene.sharpness)}
                               \cup EdgeMessages(scene.edge_density),
               recommendations |-> Recommendations(scene)]
    /\ UNCHANGED <<camera, scene>>
    /\ UNCHANGED <<analyzeVars, failoverVars, validateVars, serviceVars,
                   testerVars, videoVars>>

DiagnoseNext == analyze_frame

SpecDiagnose == DiagnoseInit /\ [][DiagnoseNext]_vars

(***************************************************************************)
(* Properties of analyze_frame.                                            *)
(***************************************************************************)
\* C20: every finished analyze_frame call produced a report; for a frame
\* that could not be captured the report has all measurements zero and
\* every flag "unreadable".
C20_AlwaysReports ==
    dpc = "done" =>
        /\ diagnosis.saved
        /\ ~(CameraOpens(camera) /\ camera.ret) =>
              /\ diagnosis.brightness = 0
              /\ diagnosis.contrast = 0
              /\ diagnosis.sharpness = 0
              /\ diagnosis.edge_density = 0
              /\ \A k \in DOMAIN diagnosis.diagnostics :
                    diagnosis.diagnostics[k] = "unreadable"

\* the requests for which both models were called
ModelsCalled == {i \in 1..Len(svc_log) : svc_log[i].pconf > 0}

\* the conf_threshold of a request: data.get('confidence', 0.5)
RequestedConf(i) ==
    IF svc_log[i].line.confidence.t = "missing" THEN 50
    ELSE svc_log[i].line.confidence.n

\* C21: for every request that reached the models, the person model was
\* called with the larger of 0.5 and the requested threshold and the
\* hard-hat model with the larger of 0.6 and the requested threshold; so
\* the person model never ran below 0.5, the hard-hat model never below 0.6,
\* and the hard-hat conf was never below the person conf.
C21_ConfidenceFloors ==
    \A i \in ModelsCalled :
        /\ svc_log[i].pconf =
              (IF RequestedConf(i) > 50 THEN RequestedConf(i) ELSE 50)
        /\ svc_log[i].hconf =
              (IF RequestedConf(i) > 60 THEN RequestedConf(i) ELSE 60)
        /\ svc_log[i].pconf >= 50
        /\ svc_log[i].hconf >= 60
        /\ svc_log[i].hconf >= svc_log[i].pconf

\* a negative threshold, one between the floors and one above both
C21_Witness ==
    /\ \E i \in ModelsCalled :
          RequestedConf(i) = -10 /\ svc_log[i].pconf = 50 /\ svc_log[i].hconf = 60
    /\ \E i \in ModelsCalled :
          RequestedConf(i) = 55 /\ svc_log[i].pconf = 55 /\ svc_log[i].hconf = 60

\* the lines read so far that are not empty, up to entry i of svc_log
Answerable(i) == {j \in 1..i : svc_log[j].line.kind # "empty"}

\* the result printed for entry i agrees with what the line was
ResultFits(i) ==
    LET r == stdout[svc_log[i].out]
    IN  CASE svc_log[i].line.kind = "invalid_json" ->
                 r = ErrorResult("Invalid JSON")
          [] svc_log[i].line.kind = "request" /\ svc_log[i].line.image = "ok" ->
                 r.success
          [] OTHER -> ~r.success /\ "error" \in DOMAIN r

\* C23 as stated: every line read that is not empty has exactly one result
\* on stdout, the results come in the order of the lines, and an empty line
\* has none.
C23_OneResultPerLine ==
    \A i \in 1..Len(svc_log) :
        IF svc_log[i].line.kind = "empty"
        THEN svc_log[i].out = 0
        ELSE /\ svc_log[i].out = Cardinality(Answerable(i))
             /\ svc_log[i].out <= Len(stdout)
             /\ ResultFits(i)

\* C23, amended: the same for every line whose iteration was not cut short
\* by KeyboardInterrupt; a line interrupted while it was being processed has
\* no result.  Apart from the results printed after the end of stdin, stdout
\* holds nothing else.
C23_OneResultPerCompletedLine ==
    /\ \A i \in 1..Len(svc_log) :
          IF svc_log[i].line.kind = "empty" \/ ~svc_log[i].completed
          THEN svc_log[i].out = 0
          ELSE /\ svc_log[i].out = Cardinality(Answerable(i))
               /\ svc_log[i].out <= Len(stdout)
               /\ ResultFits(i)
    /\ Len(stdout) =
          Cardinality({i \in 1..Len(svc_log) :
              svc_log[i].line.kind # "empty" /\ svc_log[i].completed})
            + eof_reads

\* an empty line and then a line that is not JSON: one result, for the second
C23_Witness ==
    /\ Len(svc_log) = 2
    /\ svc_log[1].line.kind = "empty"
    /\ svc_log[2].line.kind = "invalid_json"
    /\ svc_log[2].completed
    /\ stdout = <<ErrorResult("Invalid JSON")>>

\* C24: once input() has met the end of stdin the loop is left, and nothing
\* is printed for the end of stdin.
C24_StopsAtEndOfInput ==
    eof_reads > 0 =>
        /\ svc = "stopped"
        /\ Len(stdout) = Cardinality({i \in 1..Len(svc_log) : svc_log[i].out > 0})

\* the log entry whose result is line k of stdout
EntryOf(k) == CHOOSE i \in 1..Len(svc_log) : svc_log[i].out = k

\* C29: a successful result has the six keys of process_frame, its counts
\* add up to the number of detections, its first person_count detections
\* are of class person and the rest are the boxes the hard-hat model
\* returned; a failed result has the keys success and error and no others.
C29_ResultShape ==
    \A k \in 1..Len(stdout) :
        LET r == stdout[k]
        IN  IF r.success
            THEN /\ DOMAIN r = {"success", "frame_width", "frame_height",
                                "detections", "person_count", "hardhat_count"}
                 /\ r.person_count + r.hardhat_count = Len(r.detections)
                 /\ \A j \in 1..Len(r.detections) :
                       IF j <= r.person_count
                       THEN r.detections[j].class = s_person
                       ELSE \E b \in 1..Len(svc_log[EntryOf(k)].hm.boxes) :
                               svc_log[EntryOf(k)].hm.boxes[b] = r.detections[j]
            ELSE DOMAIN r = {"success", "error"}

\* a result with a person and hard hats, and a failed result
C29_Witness ==
    /\ \E k \in 1..Len(stdout) :
          /\ stdout[k].success
          /\ stdout[k].person_count = 1
          /\ stdout[k].hardhat_count = 2
    /\ \E k \in 1..Len(stdout) : ~stdout[k].success

(***************************************************************************)
(* The two compliance calculators on the same prediction list.             *)
(***************************************************************************)
\* what PPEModelTester.validate_predictions makes of data["predictions"]
TesterView ==
    validate_predictions([none |-> FALSE, body |-> "object",
                          preds |-> predictions])

\* C22: when every confidence of the list is at or above the threshold and
\* both calculators finish, the verdict of analyze_predictions and the
\* analysis of validate_predictions have the same has_person, the same
\* head, hand and body coverage and the same is_compliant.
C22_CalculatorsAgree ==
    (/\ Completed
     /\ Kept = 1..Len(predictions)
     /\ ~TesterView.raised) =>
        LET a == TesterView.analysis
        IN  /\ report.verdict.has_person = a.compliance.has_person
            /\ report.verdict.has_hardhat
                  = IsPositive(a.counts["hardhat_helmet_head"])
            /\ report.verdict.has_gloves = IsPositive(a.counts["gloves_hand"])
            /\ report.verdict.has_vest
                  = IsPositive(a.counts["vest_jacket_safety"])
            /\ report.verdict.is_compliant = a.compliance.is_compliant

\* C26: after a completed analysis the reported number of valid predictions
\* is the number of records without a validation error, so it lies between
\* 0 and the number of records; and the call returned True exactly when no
\* record has a validation error.
C26_ValidCountSound ==
    Completed =>
        /\ report.valid_predictions = Cardinality(ErrorFree)
        /\ report.valid_predictions >= 0
        /\ report.valid_predictions <= Len(predictions)
        /\ (report.returned = "True") <=> (ErrorFree = 1..Len(predictions))

\* the sum of by_class[k].count over the class names in keys
RECURSIVE SumOfCounts(_, _)
SumOfCounts(by_class, keys) ==
    IF keys = {} THEN 0
    ELSE LET k == CHOOSE x \in keys : TRUE
         IN  by_class[k].count + SumOfCounts(by_class, keys \ {k})

\* C25: in every analysis the five category counters add up to
\* total_detections, which is the length of the prediction list; the counts
\* of by_class add up to it as well; and every by_class entry has as many
\* confidences and as many detections as its count.
C25_CountsPartition ==
    \A e \in FrameEntries :
        e.analysis.present =>
            LET a == e.analysis
            IN  /\ a.total_detections = Len(run_log[RunOf(e)].client.preds)
                /\ a.counts["persons"] + a.counts["hardhat_helmet_head"]
                     + a.counts["gloves_hand"] + a.counts["vest_jacket_safety"]
                     + a.counts["other"] = a.total_detections
                /\ SumOfCounts(a.by_class, DOMAIN a.by_class) = a.total_detections
                /\ \A k \in DOMAIN a.by_class :
                      /\ a.by_class[k].count = Len(a.by_class[k].confidences)
                      /\ a.by_class[k].count = Len(a.by_class[k].detections)

\* one analysis with a detection in each PPE category, one whose detections
\* are all of category other, and one with a class seen twice
C25_Witness ==
    /\ \E e \in FrameEntries :
          /\ e.analysis.total_detections = 4
          /\ e.analysis.counts["other"] = 0
    /\ \E e \in FrameEntries :
          /\ e.analysis.total_detections = 2
          /\ e.analysis.counts["other"] = 2
    /\ \E e \in FrameEntries :
          \E k \in DOMAIN e.analysis.by_class : e.analysis.by_class[k].count = 2


\* C27: for a frame that was analysed, the recommendation list is empty if
\* and only if the four saved flags are positive (lighting GOOD, contrast
\* GOOD, sharpness GOOD, has_objects LIKELY), and every saved flag agrees
\* with the message printed about the same measurement.
C27_FlagsMatchRecommendations ==
    (dpc = "done" /\ diagnosis.saved) =>
        LET d == diagnosis.diagnostics
        IN  /\ diagnosis.recommendations = <<>>
                 <=> /\ d.lighting = "GOOD"
                     /\ d.contrast = "GOOD"
                     /\ d.sharpness = "GOOD"
                     /\ d.has_objects = "LIKELY"
            /\ d.lighting = "GOOD" <=> "Good lighting" \in diagnosis.messages
            /\ d.contrast = "GOOD"
                 <=> diagnosis.messages
                       \cap {"Good contrast", "Acceptable contrast"} # {}
            /\ d.sharpness = "GOOD" <=> "Sharp image" \in diagnosis.messages
            /\ "Many edges" \in diagnosis.messages => d.has_objects = "LIKELY"
            /\ "Very few edges" \in diagnosis.messages => d.has_objects = "CHECK"


\* the run_full_test calls that obtained a frame, and those of them whose
\* prediction failed (test_model_prediction returned None)
FramesObtained == {i \in 1..Len(run_log) : run_log[i].captured}
PredictionsFailed == {i \in FramesObtained : run_log[i].client.none}

\* C28: after any sequence of run_full_test calls total_frames is
\* successful_predictions plus failed_predictions and is the number of calls
\* that obtained a frame; failed_predictions counts the calls whose
\* prediction failed; and frames has successful_predictions entries.
C28_RunCounters ==
    /\ test_results.total_frames
         = test_results.successful_predictions + test_results.failed_predictions
    /\ test_results.total_frames = Cardinality(FramesObtained)
    /\ test_results.failed_predictions = Cardinality(PredictionsFailed)
    /\ Len(test_results.frames) = test_results.successful_predictions


(***************************************************************************)
(* test_video.py : test_video_file, the choice of the frames to test and   *)
(* the loop over them, each iteration with its whole test_frame call.      *)
(***************************************************************************)
MaxTotalFrames == 5
MaxNumFrames == 3

Videos ==
    [opened : BOOLEAN, total_frames : 0..MaxTotalFrames,
     num_frames : 1..MaxNumFrames]

\* list(range(n))
Range(n) == [i \in 1..n |-> i - 1]

\* frame_indices: num_frames indices a step apart, or every frame
FrameIndicesWide(total_frames, num_frames) ==
    IF total_frames > num_frames
    THEN [i \in 1..num_frames |-> (i - 1) * ((total_frames \div num_frames) + 1)]
    ELSE Range(total_frames)
FrameIndices(total_frames, num_frames) ==
    IF total_frames > num_frames
    THEN [i \in 1..num_frames |-> (i - 1) * (total_frames \div num_frames)]
    ELSE Range(total_frames)

\* test_frame(frame, label), given what the post to the local server and,
\* if it is made, the post to the cloud API do; None is Failure
test_frame(local, cloud) ==
    IF local.raised # "none" THEN Failure
    ELSE LET answer == IF NeedsFallback(local.status_code) THEN cloud
                       ELSE local
         IN  IF answer.raised # "none" THEN Failure
             ELSE IF IsApiError(answer.status_code) THEN Failure
             ELSE IF ~answer.json THEN Failure
             ELSE [outcome |-> "success", detections |-> Len(answer.preds),
                   persons |-> Len(Persons(answer.preds))]

VideoInit ==
    /\ video_pc = "ready"
    /\ video \in Videos
    /\ frame_indices = <<>>
    /\ idx = 0
    /\ script = "test_video"
    /\ fpc = "off"
    /\ response = <<>>
    /\ calls = <<>>
    /\ printed = <<>>
    /\ result = NoResult
    /\ frame_no = 0
    /\ tested_frames = 0
    /\ total_detections = 0
    /\ persons_found = 0
    /\ AnalyzeIdle
    /\ ValidateIdle
    /\ ServiceIdle
    /\ TesterIdle
    /\ DiagnoseIdle

\* test_video_file: from cv2.VideoCapture to the start of the loop
test_video_file_open ==
    /\ video_pc = "ready"
    /\ IF ~video.opened
       THEN /\ video_pc' = "done"
            /\ UNCHANGED frame_indices
       ELSE /\ video_pc' = "loop"
            /\ frame_indices' = FrameIndices(video.total_frames, video.num_frames)
    /\ UNCHANGED <<video, idx>>
    /\ UNCHANGED <<analyzeVars, failoverVars, validateVars, serviceVars,
                   testerVars, diagnoseVars>>

\* test_video_file: one iteration of the loop, test_frame included
test_video_file_frame ==
    /\ video_pc = "loop"
    /\ idx < Len(frame_indices)
    /\ idx' = idx + 1
    /\ frame_no' = frame_indices[idx + 1]
    /\ \E ret \in BOOLEAN, local \in PostOutcomes, cloud \in PostOutcomes :
          IF ~ret
          THEN UNCHANGED <<result, tested_frames, total_detections,
                           persons_found>>
          ELSE /\ result' = test_frame(local, cloud)
               /\ IF result'.outcome = "success"
                  THEN /\ tested_frames' = tested_frames + 1
                       /\ total_detections' = total_detections + result'.detections
                       /\ persons_found' = persons_found + result'.persons
                  ELSE UNCHANGED <<tested_frames, total_detections,
                                   persons_found>>
    /\ UNCHANGED <<video_pc, video, frame_indices>>
    /\ UNCHANGED <<script, fpc, response, calls, printed>>
    /\ UNCHANGED <<analyzeVars, validateVars, serviceVars, testerVars,
                   diagnoseVars>>

\* test_video_file: cap.release() and the summary
test_video_file_summary ==
    /\ video_pc = "loop"
    /\ idx = Len(frame_indices)
    /\ video_pc' = "done"
    /\ UNCHANGED <<video, frame_indices, idx>>
    /\ UNCHANGED <<analyzeVars, failoverVars, validateVars, serviceVars,
                   testerVars, diagnoseVars>>

VideoNext ==
    \/ test_video_file_open
    \/ test_video_file_frame
    \/ test_video_file_summary

SpecVideo == VideoInit /\ [][VideoNext]_vars

(***************************************************************************)
(* Properties of the frame sampling.                                       *)
(***************************************************************************)
Selected == video_pc \in {"loop", "done"} /\ video.opened

\* C30: once the frames are chosen there are min(num_frames, total_frames)
\* indices, strictly increasing (hence distinct), each at least 0 and below
\* total_frames, the first being 0 when the video has a frame; and all
\* through the run tested_frames never exceeds the number of indices and
\* persons_found never exceeds total_detections.
C30_FrameSampling ==
    /\ Selected =>
          /\ Len(frame_indices)
               = IF video.num_frames < video.total_frames
                 THEN video.num_frames ELSE video.total_frames
          /\ \A i \in 1..Len(frame_indices) :
                /\ 0 <= frame_indices[i]
                /\ frame_indices[i] < video.total_frames
          /\ \A i \in 1..(Len(frame_indices) - 1) :
                frame_indices[i] < frame_indices[i + 1]
          /\ video.total_frames > 0 => frame_indices[1] = 0
    /\ tested_frames <= Len(frame_indices)
    /\ persons_found <= total_detections

\* a finished run over a video longer than num_frames, sampled two frames
\* apart, in which every chosen frame was tested and some but not all of
\* the detections were persons
C30_Witness ==
    /\ video_pc = "done"
    /\ video.opened
    /\ video.total_frames > video.num_frames
    /\ Len(frame_indices) > 1
    /\ frame_indices[2] = 2
    /\ tested_frames = Len(frame_indices)
    /\ persons_found > 0
    /\ persons_found < total_detections

====
